---- MODULE Spec2Model ----
(***************************************************************************)
(* Download queue, download coordinator and per-item worker of the book    *)
(* downloader.                                                             *)
(*                                                                         *)
(*   coordinator : services/book_service.py  concurrent_download_loop      *)
(*   worker      : services/book_service.py  _process_single_download,     *)
(*                 down; services/book_manager.py download_book            *)
(*   views       : app/api/blueprint.py  api_search_view,                  *)
(*                 api_reorder_queue_view, api_clear_completed_view        *)
(*   registry    : services/registry.py                                    *)
(*   bypasser    : services/web_bypassers/cloudflare/bypasser.py           *)
(*   cache       : utils/threading_utils.py  cached_lookup                 *)
(*   queue       : services/book_queue.py (BookQueue) is not part of the   *)
(*                 available sources; its operations follow section 4.1    *)
(*                 of the specification.                                   *)
(***************************************************************************)
EXTENDS Integers, Sequences, FiniteSets, TLC

(* ------------------------------ bounds -------------------------------- *)
\* number of admissions (fresh enqueues) over a run
MaxAdmissions == 2
\* priorities range over 0..MaxPriority
MaxPriority == 1
\* number of candidate download URLs of one book
NumLinks == 2

\* the pool is configured with 1..MaxPool workers
MaxPool == 2
\* a response body has 0..MaxChunks chunks of chunk_size bytes
MaxChunks == 3
\* size hints and content-length values range up to MaxSize chunks
MaxSize == 2
\* threads that call the service registry
NumThreads == 3

(* ------------------------- program constants -------------------------- *)

Ids == {"a", "b"}
Priorities == 0..MaxPriority
None == "None"

\* models.py QueueStatus
QueueStatus == {"queued", "downloading", "available", "error", "done", "cancelled"}
Absent == "absent"
Terminal == {"available", "error", "done", "cancelled"}

\* utils/book_utils.py
KEEP_CHARACTERS == {" ", ".", "_"}
\* str.isalnum on the characters that occur in the modelled titles
IsAlnum(c) == c \in {"T", "1"}
IsSpace(c) == c = " "

RECURSIVE RStrip(_)
RStrip(s) ==
    IF s = <<>> THEN s
    ELSE IF IsSpace(s[Len(s)]) THEN RStrip(SubSeq(s, 1, Len(s) - 1))
    ELSE s

sanitize_filename(filename) ==
    RStrip(SelectSeq(filename, LAMBDA c : IsAlnum(c) \/ c \in KEEP_CHARACTERS))

\* BookInfo.title / BookInfo.format of the two books (metadata set at admission)
Title == [a |-> <<"T", ":">>, b |-> <<"T", " ">>]
Format == [a |-> "epub", b |-> "epub"]

\* settings.py, line 155
MAX_RETRY == 10
\* settings.py, line 157
DEFAULT_SLEEP == 5

VARIABLES
    status,          \* BookQueue: id -> QueueStatus, Absent when not tracked
    priority,        \* BookQueue: id -> priority of the entry
    enqueued_at,     \* BookQueue: id -> admission time of the entry
    cancel_token,    \* BookQueue: id -> cancel token of the entry
    reserved,        \* BookQueue: id -> entry has been claimed by get_next
    signaled,        \* set of cancel tokens whose Event is set
    clock,           \* next admission time / next fresh token
    active_futures,  \* coordinator: dispatched and not yet reaped tasks
    loop_pc,         \* coordinator: position in the while True loop
    scratch,         \* files in TMP_DIR
    ingest,          \* files in INGEST_DIR
    USE_BOOK_TITLE,  \* settings.USE_BOOK_TITLE
    MAX_CONCURRENT_DOWNLOADS,  \* settings.MAX_CONCURRENT_DOWNLOADS
    cancelled_in,    \* history: token -> status its entry had when cancel() hit it
    add_hit,         \* history: id -> an add() found the current entry present
    USE_CF_BYPASS,   \* settings: a bypasser is configured
    retry,           \* html_get_page: parameter retry of the current invocation
    use_bypasser,    \* html_get_page: parameter use_bypasser of the current invocation
    page_pc,         \* html_get_page: "idle", "call" (an invocation runs) or "returned"
    page_result,     \* html_get_page: the value returned to the caller
    page_log,        \* history: the attempts of the call, in order
    progress,        \* BookQueue: id -> progress, a fraction <<numerator, denominator>>
    size_hint,       \* BookInfo.size of the book being downloaded, parsed
    dl_pc,           \* download_url: "idle" or "stream"
    total_size,      \* download_url: total_size
    content_type,    \* download_url: content-type header of the response
    body,            \* the number of chunks the response delivers
    pbar_n,          \* download_url: pbar.n = buffer.tell(), in chunks
    dl_last,         \* history: how the last download_url call ended
    last_call,       \* history: the last call of the queue API, with its answer
    download_path,   \* BookQueue: id -> BookInfo.download_path
    read_res,        \* get_book_data: how the last call ended
    search_req,      \* api_search_view: the arguments of the request
    search_res,      \* api_search_view: how the request was answered
    registry,        \* registry.py: the module global registry
    reg_threads,     \* get_or_create_service_registry: thread -> position and result
    reg_built,       \* history: number of _initialize_service_registry calls
    by_threads,      \* get_bypassed_page: caller -> position in the call
    cache,           \* cached_lookup: the cache dict, key -> stored result (0: no entry)
    cache_lock,      \* cached_lookup: the thread inside a with lock block, or 0
    ck_threads,      \* cached_lookup: caller -> position, key and result
    loads,           \* history: number of loader runs so far
    download_urls,   \* BookInfo.download_urls of the stored item, id -> list
    AA_DONATOR_KEY,  \* settings: a donor key is configured
    links_run        \* history: the lists the attempts iterated, in order

\* html_get_page
pageVars == <<USE_CF_BYPASS, retry, use_bypasser, page_pc, page_result, page_log>>

\* download_url and the progress it reports
dlVars == <<progress, size_hint, dl_pc, total_size, content_type, body, pbar_n, dl_last>>

netVars == <<pageVars, dlVars>>

\* the queue API, get_book_data, the search view and the service registry
apiVars == <<last_call, download_path, read_res, search_req, search_res,
             registry, reg_threads, reg_built>>

\* the bypasser session, the lookup cache and the stored candidate links
auxVars == <<by_threads, cache, cache_lock, ck_threads, loads, download_urls,
             AA_DONATOR_KEY, links_run>>

vars == <<status, priority, enqueued_at, cancel_token, reserved, signaled, clock,
          active_futures, loop_pc, scratch, ingest, USE_BOOK_TITLE,
          MAX_CONCURRENT_DOWNLOADS, cancelled_in, add_hit, netVars, apiVars, auxVars>>

\* the settings, read once at startup
config == <<USE_BOOK_TITLE, MAX_CONCURRENT_DOWNLOADS>>

queueVars == <<status, priority, enqueued_at, cancel_token, reserved>>
fileVars == <<scratch, ingest>>

(* ------------------------------ file names ---------------------------- *)
\* down, lines 80-85: book_name and its extension
BookName(id) ==
    <<IF USE_BOOK_TITLE THEN sanitize_filename(Title[id]) ELSE <<id>>, Format[id]>>

\* down, line 119
IntermediatePath(id) == <<(<<id>>), "crdownload">>

\* down, line 120
FinalPath(id) == BookName(id)

(* -------------------------------- queue -------------------------------- *)
\* QueueItem.__lt__ without the priority comparison (plain FIFO)
QueueItemLt_fifo(p1, t1, p2, t2) == t1 < t2

\* QueueItem.__lt__ on (priority, added_time) pairs
QueueItemLt(p1, t1, p2, t2) ==
    IF p1 # p2 THEN p1 < p2 ELSE t1 < t2

\* an entry get_next may select: queued and not yet claimed
Ready(id) == status[id] = "queued" /\ ~reserved[id]

\* get_next: the ready entry that is smallest in the QueueItem order
get_next ==
    IF \E id \in Ids : Ready(id)
    THEN CHOOSE id \in Ids :
            /\ Ready(id)
            /\ \A o \in Ids \ {id} :
                  Ready(o) => QueueItemLt(priority[id], enqueued_at[id],
                                          priority[o], enqueued_at[o])
    ELSE None

\* update_status: no-op for an unknown id
update_status(st, id, s) ==
    IF st[id] = Absent THEN st ELSE [st EXCEPT ![id] = s]

\* add() that treats a downloading entry as absent and admits the id again
AddUpdatesPriority_queuedOnly(st) == st = "queued"

\* add: the statuses for which add() updates the priority of the entry it finds
AddUpdatesPriority(st) == st \in {"queued", "downloading"}

\* add(id, priority)
queue_book(id, p) ==
    /\ IF AddUpdatesPriority(status[id])
       THEN /\ priority' = [priority EXCEPT ![id] = p]
            /\ add_hit' = [add_hit EXCEPT ![id] = TRUE]
            /\ UNCHANGED <<status, enqueued_at, cancel_token, reserved, clock>>
       ELSE /\ clock <= MaxAdmissions
            /\ status' = [status EXCEPT ![id] = "queued"]
            /\ priority' = [priority EXCEPT ![id] = p]
            /\ enqueued_at' = [enqueued_at EXCEPT ![id] = clock]
            /\ cancel_token' = [cancel_token EXCEPT ![id] = clock]
            /\ reserved' = [reserved EXCEPT ![id] = FALSE]
            /\ clock' = clock + 1
            /\ add_hit' = [add_hit EXCEPT ![id] = FALSE]
    /\ UNCHANGED <<signaled, active_futures, loop_pc, scratch, ingest, config, netVars, apiVars, auxVars,
                   cancelled_in>>

\* cancel(id)
cancel_download(id) ==
    /\ status[id] \in {"queued", "downloading"}
    /\ signaled' = signaled \cup {cancel_token[id]}
    /\ status' = IF status[id] = "queued"
                 THEN [status EXCEPT ![id] = "cancelled"]
                 ELSE status
    /\ cancelled_in' = IF cancelled_in[cancel_token[id]] = "no"
                       THEN [cancelled_in EXCEPT ![cancel_token[id]] = status[id]]
                       ELSE cancelled_in
    /\ UNCHANGED <<priority, enqueued_at, cancel_token, reserved, clock,
                   active_futures, loop_pc, scratch, ingest, config, netVars, apiVars, auxVars, add_hit>>

\* set_priority(id, new_priority)
set_book_priority(id, p) ==
    /\ status[id] = "queued"
    /\ priority' = [priority EXCEPT ![id] = p]
    /\ UNCHANGED <<status, enqueued_at, cancel_token, reserved, signaled, clock,
                   active_futures, loop_pc, scratch, ingest, config, netVars, apiVars, auxVars, cancelled_in, add_hit>>

\* a reorder that writes only one entry of the batch under the lock
ReorderBatch_first(m) ==
    IF DOMAIN m = {} THEN {} ELSE {CHOOSE id \in DOMAIN m : TRUE}

\* reorder: the entries of the batch that are written in the critical section
ReorderBatch(m) == DOMAIN m

\* reorder(id_to_priority): the priorities after the batch; as for
\* set_priority, only a queued entry takes a new priority
reorder_priorities(m) ==
    [id \in Ids |->
        IF id \in ReorderBatch(m) /\ status[id] = "queued"
        THEN m[id] ELSE priority[id]]

\* BookQueue.reorder_queue: the whole batch in one critical section
reorder(m) ==
    /\ priority' = reorder_priorities(m)
    /\ UNCHANGED <<status, enqueued_at, cancel_token, reserved, add_hit>>

\* book_service.reorder_queue
reorder_queue(m) ==
    /\ reorder(m)
    /\ UNCHANGED <<signaled, clock, active_futures, loop_pc, scratch, ingest,
                   config, netVars, apiVars, auxVars, cancelled_in>>

\* a sweep that drops every tracked entry
Swept_all(st) == st # Absent

\* sweep_finished: the statuses whose entries the sweep removes
Swept(st) == st \in Terminal

\* sweep_finished: the count it returns
removed_count == Cardinality({id \in Ids : Swept(status[id])})

\* BookQueue.clear_completed: removes every entry in a terminal status
sweep_finished ==
    /\ status' = [id \in Ids |-> IF Swept(status[id]) THEN Absent ELSE status[id]]
    /\ priority' = [id \in Ids |-> IF Swept(status[id]) THEN 0 ELSE priority[id]]
    /\ enqueued_at' = [id \in Ids |-> IF Swept(status[id]) THEN 0 ELSE enqueued_at[id]]
    /\ cancel_token' = [id \in Ids |-> IF Swept(status[id]) THEN 0 ELSE cancel_token[id]]
    /\ reserved' = [id \in Ids |-> IF Swept(status[id]) THEN FALSE ELSE reserved[id]]
    /\ add_hit' = [id \in Ids |-> IF Swept(status[id]) THEN FALSE ELSE add_hit[id]]

\* book_service.clear_completed (a sweep that finds nothing changes nothing)
clear_completed ==
    /\ \E id \in Ids : Swept(status[id])
    /\ sweep_finished
    /\ UNCHANGED <<signaled, clock, active_futures, loop_pc, scratch, ingest,
                   config, netVars, apiVars, auxVars, cancelled_in>>

(* ------------------------------ queue views ---------------------------- *)
\* the rest of the state of apiVars, auxVars, which the queue views leave alone
otherApi == <<download_path, read_res, search_req, search_res,
              registry, reg_threads, reg_built>>

\* the arguments of a reorder request as a total map, -1 for an id not named
Asked(m) == [id \in Ids |-> IF id \in DOMAIN m THEN m[id] ELSE -1]

\* no queue view has been called; a call is recorded with its arguments, the
\* entries it changed and its answer
NoCall == [op |-> "none", asked |-> [id \in Ids |-> -1], changed |-> {}, answer |-> 0]

\* blueprint.api_reorder_queue_view, lines 175-198: a valid request; the
\* answer is updated_count, len(book_priorities)
api_reorder_queue_view(m) ==
    /\ reorder(m)
    /\ last_call' = [op |-> "reorder", asked |-> Asked(m),
                     changed |-> {id \in Ids : reorder_priorities(m)[id] # priority[id]},
                     answer |-> Cardinality(DOMAIN m)]
    /\ UNCHANGED <<signaled, clock, active_futures, loop_pc, scratch, ingest,
                   config, netVars, otherApi, auxVars, cancelled_in>>

\* blueprint.api_clear_completed_view, lines 213-222: the answer is removed_count
api_clear_completed_view ==
    /\ sweep_finished
    /\ last_call' = [op |-> "clear", asked |-> [id \in Ids |-> -1],
                     changed |-> {id \in Ids : Swept(status[id])},
                     answer |-> removed_count]
    /\ UNCHANGED <<signaled, clock, active_futures, loop_pc, scratch, ingest,
                   config, netVars, otherApi, auxVars, cancelled_in>>

(* ----------------------------- coordinator ----------------------------- *)
\* a submit that hands every task one shared Event
NewTask_sharedEvent(id, tok) ==
    [id |-> id, tok |-> 1, pc |-> "start", link |-> 0, success |-> FALSE, path |-> FALSE]

\* a freshly submitted worker task
NewTask(id, tok) ==
    [id |-> id, tok |-> tok, pc |-> "start", link |-> 0, success |-> FALSE, path |-> FALSE]

\* Future.done(): the task function has returned or has raised
FutureDone(t) == t.pc \in {"done", "raised"}

\* a reconciliation whose future.result() is called outside any try
ExceptException_none(e) == FALSE

\* line 254, "except Exception": the exception classes the handler catches
ExceptException(e) == e = "Exception"

\* the class of the exception a raised future re-raises from result(): the
\* calls of the worker raise subclasses of Exception
ResultException(t) == "Exception"

\* concurrent_download_loop, lines 249-255: reap the completed futures; an
\* exception that line 254 does not catch ends the loop
Reap ==
    /\ loop_pc = "reap"
    /\ active_futures' = {t \in active_futures : ~FutureDone(t)}
    /\ loop_pc' = IF \E t \in active_futures :
                        t.pc = "raised" /\ ~ExceptException(ResultException(t))
                 THEN "crashed"
                 ELSE "fill"
    /\ UNCHANGED <<queueVars, signaled, clock, scratch, ingest, config, netVars, apiVars, auxVars, cancelled_in, add_hit>>

\* the capacity test with <= for <
HasCapacity_offByOne == Cardinality(active_futures) <= MAX_CONCURRENT_DOWNLOADS

\* the capacity test of the inner while, line 258
HasCapacity == Cardinality(active_futures) < MAX_CONCURRENT_DOWNLOADS

\* lines 258-268: one pass of the inner while that claims and submits
Dispatch ==
    /\ loop_pc = "fill"
    /\ HasCapacity
    /\ get_next # None
    /\ LET id == get_next IN
         /\ reserved' = [reserved EXCEPT ![id] = TRUE]
         /\ active_futures' = active_futures \cup {NewTask(id, cancel_token[id])}
    /\ UNCHANGED <<status, priority, enqueued_at, cancel_token, signaled, clock,
                   loop_pc, scratch, ingest, config, netVars, apiVars, auxVars, cancelled_in, add_hit>>

\* lines 258-261 and 271: the inner while ends (pool full or get_next
\* returned nothing) and the loop sleeps
FillEnd ==
    /\ loop_pc = "fill"
    /\ ~(HasCapacity /\ get_next # None)
    /\ loop_pc' = "reap"
    /\ UNCHANGED <<queueVars, signaled, clock, active_futures, scratch, ingest,
                   config, netVars, apiVars, auxVars, cancelled_in, add_hit>>

(* -------------------------------- worker ------------------------------- *)
Replace(t, u) == (active_futures \ {t}) \cup {u}

IsSet(t) == t.tok \in signaled

\* _process_single_download, line 214
process_single_download_start(t) ==
    /\ t.pc = "start"
    /\ status' = update_status(status, t.id, "downloading")
    /\ active_futures' = Replace(t, [t EXCEPT !.pc = "down"])
    /\ UNCHANGED <<priority, enqueued_at, cancel_token, reserved, signaled, clock,
                   loop_pc, scratch, ingest, config, netVars, apiVars, auxVars, cancelled_in, add_hit>>

\* down, lines 73-90: the two cancellation checks and the _book_data lookup
\* (a KeyError for an id the queue no longer tracks is caught at line 146)
down_begin(t) ==
    /\ t.pc = "down"
    /\ IF IsSet(t) \/ status[t.id] = Absent
       THEN active_futures' = Replace(t, [t EXCEPT !.pc = "post"])
       ELSE active_futures' = Replace(t, [t EXCEPT !.pc = "links", !.link = 1])
    /\ UNCHANGED <<queueVars, signaled, clock, loop_pc, scratch, ingest, config, netVars, apiVars, auxVars, cancelled_in, add_hit>>

\* the for loop of book_manager.download_book advances to the next link
NextLink(i) == i + 1

\* book_manager.download_book, line 266: the loop is exhausted, return False
LinksExhausted(i) == i > NumLinks

\* book_manager.download_book, lines 246-266: one candidate link is tried
download_book(t) ==
    /\ t.pc = "links"
    /\ \/ \* no url, request failure or no data (also when the download is
          \* cancelled while streaming): continue with the next link
          /\ UNCHANGED scratch
          /\ active_futures' =
                IF LinksExhausted(NextLink(t.link))
                THEN Replace(t, [t EXCEPT !.pc = "after", !.link = NextLink(t.link)])
                ELSE Replace(t, [t EXCEPT !.link = NextLink(t.link)])
       \/ \* data received and written to book_path: return True
          /\ ~IsSet(t)
          /\ scratch' = scratch \cup {BookName(t.id)}
          /\ active_futures' = Replace(t, [t EXCEPT !.pc = "after", !.success = TRUE])
    /\ UNCHANGED <<queueVars, signaled, clock, loop_pc, ingest, config, netVars, apiVars, auxVars, cancelled_in, add_hit>>

\* down, lines 96-133: the cancellation checks after the download, then the
\* hand-over of the scratch file to the intermediate name
down_handoff(t) ==
    /\ t.pc = "after"
    /\ IF IsSet(t)
       THEN \* lines 98-103
            /\ scratch' = scratch \ {BookName(t.id)}
            /\ UNCHANGED ingest
            /\ active_futures' =
                  Replace(t, [t EXCEPT !.pc = "post"])
       ELSE IF ~t.success
       THEN \* lines 105-106, caught at line 146
            /\ UNCHANGED <<scratch, ingest>>
            /\ active_futures' = Replace(t, [t EXCEPT !.pc = "post"])
       ELSE IF BookName(t.id) \notin scratch
       THEN \* line 122 false: straight to the return of line 145
            /\ UNCHANGED <<scratch, ingest>>
            /\ active_futures' = Replace(t, [t EXCEPT !.pc = "post", !.path = TRUE])
       ELSE \/ \* line 125: the first shutil.move succeeds
               /\ scratch' = scratch \ {BookName(t.id)}
               /\ ingest' = ingest \cup {IntermediatePath(t.id)}
               /\ active_futures' = Replace(t, [t EXCEPT !.pc = "rename"])
            \/ \* line 129: the repeated move succeeds, then os.remove of
               \* line 133 finds no file and raises (caught at line 146)
               /\ scratch' = scratch \ {BookName(t.id)}
               /\ ingest' = ingest \cup {IntermediatePath(t.id)}
               /\ active_futures' =
                     Replace(t, [t EXCEPT !.pc = "post"])
            \/ \* line 132: copyfile succeeds, os.remove deletes the scratch file
               /\ scratch' = scratch \ {BookName(t.id)}
               /\ ingest' = ingest \cup {IntermediatePath(t.id)}
               /\ active_futures' = Replace(t, [t EXCEPT !.pc = "rename"])
            \/ \* both moves and the copy fail (caught at line 146); the
               \* failed copy may leave a partial intermediate file
               /\ \E partial \in BOOLEAN :
                     ingest' = IF partial THEN ingest \cup {IntermediatePath(t.id)}
                               ELSE ingest
               /\ UNCHANGED scratch
               /\ active_futures' =
                     Replace(t, [t EXCEPT !.pc = "post"])
    /\ UNCHANGED <<queueVars, signaled, clock, loop_pc, config, netVars, apiVars, auxVars, cancelled_in, add_hit>>

\* down, lines 136-145: last cancellation check and the final rename
down_rename(t) ==
    /\ t.pc = "rename"
    /\ IF IsSet(t)
       THEN \* lines 136-140
            /\ ingest' = ingest \ {IntermediatePath(t.id)}
            /\ active_futures' = Replace(t, [t EXCEPT !.pc = "post"])
       ELSE IF IntermediatePath(t.id) \in ingest
       THEN \* lines 142-145
            /\ ingest' = (ingest \ {IntermediatePath(t.id)}) \cup {FinalPath(t.id)}
            /\ active_futures' = Replace(t, [t EXCEPT !.pc = "post", !.path = TRUE])
       ELSE \* os.rename raises: line 146
            /\ UNCHANGED ingest
            /\ active_futures' = Replace(t, [t EXCEPT !.pc = "post"])
    /\ UNCHANGED <<queueVars, signaled, clock, loop_pc, scratch, config, netVars, apiVars, auxVars, cancelled_in, add_hit>>

\* the status _process_single_download writes at lines 217-227
FinalStatus(t) ==
    IF IsSet(t) THEN "cancelled"
    ELSE IF t.path THEN "available"
    ELSE "error"

\* a future whose function has returned
Done(t) == [t EXCEPT !.pc = "done", !.link = 0, !.success = FALSE, !.path = FALSE]

\* _process_single_download, lines 217-229
process_single_download_finish(t) ==
    /\ t.pc = "post"
    /\ status' = update_status(status, t.id, FinalStatus(t))
    /\ active_futures' = Replace(t, Done(t))
    /\ UNCHANGED <<priority, enqueued_at, cancel_token, reserved, signaled, clock,
                   loop_pc, scratch, ingest, config, netVars, apiVars, auxVars, cancelled_in, add_hit>>

\* a future whose function has raised
Raised(t) == [t EXCEPT !.pc = "raised", !.link = 0, !.success = FALSE, !.path = FALSE]

\* _process_single_download, lines 231-234: down has logged its failure with
\* logger.error_trace (line 150), which calls psutil before it logs; when that
\* call raises, it raises out of the handler of down and again out of the
\* handler of line 231, before the status write of line 234
process_single_download_raise(t) ==
    /\ t.pc = "post"
    /\ ~t.path
    /\ ~IsSet(t)
    /\ active_futures' = Replace(t, Raised(t))
    /\ UNCHANGED <<queueVars, signaled, clock, loop_pc, scratch, ingest, config, netVars, apiVars, auxVars,
                   cancelled_in, add_hit>>

(* ------------------------------ html_get_page -------------------------- *)
\* downloader.html_get_page, lines 115-120: the attempt goes through the
\* bypasser or through requests.get
Via == IF use_bypasser /\ USE_CF_BYPASS THEN "bypasser" ELSE "requests"

\* what one attempt can meet: a page, None (external bypasser without its
\* configuration), or an exception, for requests.get with the status code of
\* the response where that is 404 or 403
Outcomes(via) ==
    IF via = "bypasser" THEN {"page", "None", "raise"}
    ELSE {"page", "404", "403", "raise"}

\* the test of line 127 one attempt too late
RetryExhausted_late(r) == r < 0

\* line 127
RetryExhausted(r) == r = 0

\* a handler without the branch of line 135
IsNotFound_never(outcome) == FALSE

\* line 135
IsNotFound(outcome) == outcome = "404"

\* line 138
IsForbidden(outcome) == outcome = "403"

\* a backoff that does not grow
sleep_time_flat(r) == DEFAULT_SLEEP

\* line 142
sleep_time(r) == DEFAULT_SLEEP * (MAX_RETRY - r + 1)

\* line 140 passing its own use_bypasser on
AfterForbidden_same(bp) == bp

\* line 140: the third argument of the recursive call
AfterForbidden(bp) == TRUE

\* line 145 falling back to a plain request
AfterFailure_plain(bp) == FALSE

\* line 145: the third argument of the recursive call
AfterFailure(bp) == bp

\* a caller invokes html_get_page(url) or html_get_page(url, use_bypasser=True)
\* (book_manager.py, lines 92, 155, 174, 275, 278); retry is the default
html_get_page_call(bp) ==
    /\ page_pc \in {"idle", "returned"}
    /\ page_pc' = "call"
    /\ retry' = MAX_RETRY
    /\ use_bypasser' = bp
    /\ page_result' = None
    /\ page_log' = <<>>
    /\ UNCHANGED <<USE_CF_BYPASS, dlVars, apiVars, auxVars, queueVars, signaled, clock, active_futures,
                   loop_pc, scratch, ingest, config, cancelled_in, add_hit>>

\* the entry of page_log for an attempt
Attempt(outcome, slept) ==
    [via |-> Via, outcome |-> outcome, retry |-> retry, slept |-> slept]

\* lines 112-145: one invocation of html_get_page, up to its return or to
\* the recursive call of line 140 or 145 (the sleep of line 144 included)
html_get_page(outcome) ==
    /\ page_pc = "call"
    /\ outcome \in Outcomes(Via)
    /\ IF outcome \in {"page", "None"}
       THEN \* lines 117 and 124
            /\ page_result' = IF outcome = "page" THEN "text" ELSE None
            /\ page_pc' = "returned"
            /\ page_log' = Append(page_log, Attempt(outcome, 0))
            /\ UNCHANGED <<retry, use_bypasser>>
       ELSE IF RetryExhausted(retry)
       THEN \* lines 127-129
            /\ page_result' = ""
            /\ page_pc' = "returned"
            /\ page_log' = Append(page_log, Attempt(outcome, 0))
            /\ UNCHANGED <<retry, use_bypasser>>
       ELSE IF Via # "bypasser" /\ IsNotFound(outcome)
       THEN \* lines 135-137
            /\ page_result' = ""
            /\ page_pc' = "returned"
            /\ page_log' = Append(page_log, Attempt(outcome, 0))
            /\ UNCHANGED <<retry, use_bypasser>>
       ELSE IF Via # "bypasser" /\ IsForbidden(outcome)
       THEN \* lines 138-140
            /\ retry' = retry - 1
            /\ use_bypasser' = AfterForbidden(use_bypasser)
            /\ page_log' = Append(page_log, Attempt(outcome, 0))
            /\ UNCHANGED <<page_pc, page_result>>
       ELSE \* lines 142-145
            /\ retry' = retry - 1
            /\ use_bypasser' = AfterFailure(use_bypasser)
            /\ page_log' = Append(page_log, Attempt(outcome, sleep_time(retry)))
            /\ UNCHANGED <<page_pc, page_result>>
    /\ UNCHANGED <<USE_CF_BYPASS, dlVars, apiVars, auxVars, queueVars, signaled, clock, active_futures,
                   loop_pc, scratch, ingest, config, cancelled_in, add_hit>>

(* ------------------------------ download_url --------------------------- *)
\* sizes are counted in chunks of chunk_size bytes (line 178)

\* BookInfo.size as line 170 parses it: <<n>>, or <<>> when float() raises
\* (line 171)
SizeHints == {<<>>} \cup {<<n>> : n \in 1..MaxSize}

\* the content-length header of a response, 0 when it is absent (line 172)
ContentLengths == 0..MaxSize

\* the content-type header of a response
ContentTypes == {"text/html", "application/octet-stream"}

\* downloader.download_url, lines 167-172
TotalSize(hint, content_length) == IF hint # <<>> THEN hint[1] ELSE content_length

\* line 182: pbar.n * 100.0 / total_size, as the fraction <<numerator, denominator>>
Percent(n, total) == <<n * 100, total>>

\* update_progress: no-op for an unknown id
update_progress(pr, id, pct) ==
    IF status[id] = Absent THEN pr ELSE [pr EXCEPT ![id] = pct]

\* line 188: buffer.tell() * 0.1 < total_size * 0.9
BelowExpected(n, total) == n * 1 < total * 9

\* a size check that never looks at the content-type
IsMarkup_never(ct) == FALSE

\* line 190
IsMarkup(ct) == ct = "text/html"

\* a chunk loop without the test of line 183
CancelChecked_never(t) == FALSE

\* line 183
CancelChecked(t) == IsSet(t)

\* book_manager.download_book, lines 262-266: the link failed, the loop
\* continues with the next link or is exhausted
LinkFailed(t) ==
    IF LinksExhausted(NextLink(t.link))
    THEN [t EXCEPT !.pc = "after", !.link = NextLink(t.link)]
    ELSE [t EXCEPT !.link = NextLink(t.link)]

\* how a download_url call ended
Ended(result, why, t) ==
    [result |-> result, why |-> why, link |-> t.link, n |-> pbar_n,
     total |-> total_size, body |-> body, ctype |-> content_type]

\* download_url has returned or raised: its locals are gone
Returned ==
    /\ dl_pc' = "idle"
    /\ total_size' = 0
    /\ content_type' = None
    /\ body' = 0
    /\ pbar_n' = 0

\* book_manager.download_book, lines 246-254, and download_url, lines 162-177:
\* the link is resolved and requested
download_url_request(t) ==
    /\ t.pc = "links"
    /\ dl_pc = "idle"
    /\ \/ \* _get_download_url returns "" or raises, or requests.get or
          \* raise_for_status raises (lines 194-196): no data from this link
          /\ active_futures' = Replace(t, LinkFailed(t))
          /\ dl_last' = Ended("None", "request", t)
          /\ UNCHANGED <<dl_pc, total_size, content_type, body, pbar_n>>
       \/ \* a response arrives: lines 167-177
          \E cl \in ContentLengths, ct \in ContentTypes, b \in 0..MaxChunks :
             /\ total_size' = TotalSize(size_hint, cl)
             /\ content_type' = ct
             /\ body' = b
             /\ pbar_n' = 0
             /\ dl_pc' = "stream"
             /\ UNCHANGED <<active_futures, dl_last>>
    /\ UNCHANGED <<pageVars, apiVars, auxVars, progress, size_hint, queueVars, signaled, clock, loop_pc,
                   scratch, ingest, config, cancelled_in, add_hit>>

\* download_url, lines 178-185: one chunk is written, reported and followed
\* by the cancel test
download_url_chunk(t) ==
    /\ t.pc = "links"
    /\ dl_pc = "stream"
    /\ pbar_n < body
    /\ IF total_size = 0
       THEN \* line 182 divides by zero; the ZeroDivisionError passes the
            \* handler of line 194 and is caught at book_manager.py:262
            /\ Returned
            /\ dl_last' = [Ended("raised", "ZeroDivisionError", t) EXCEPT !.n = pbar_n + 1]
            /\ active_futures' = Replace(t, LinkFailed(t))
            /\ UNCHANGED progress
       ELSE /\ progress' = update_progress(progress, t.id, Percent(pbar_n + 1, total_size))
            /\ IF CancelChecked(t)
               THEN \* lines 183-185, then book_manager.py:253-254
                    /\ Returned
                    /\ dl_last' = [Ended("None", "cancel", t) EXCEPT !.n = pbar_n + 1]
                    /\ active_futures' = Replace(t, LinkFailed(t))
               ELSE /\ pbar_n' = pbar_n + 1
                    /\ UNCHANGED <<dl_pc, total_size, content_type, body,
                                   active_futures, dl_last>>
    /\ UNCHANGED <<pageVars, apiVars, auxVars, size_hint, queueVars, signaled, clock, loop_pc,
                   scratch, ingest, config, cancelled_in, add_hit>>

\* lines 194-196: the stream breaks before its next chunk
download_url_abort(t) ==
    /\ t.pc = "links"
    /\ dl_pc = "stream"
    /\ pbar_n < body
    /\ Returned
    /\ dl_last' = Ended("None", "stream", t)
    /\ active_futures' = Replace(t, LinkFailed(t))
    /\ UNCHANGED <<pageVars, apiVars, auxVars, progress, size_hint, queueVars, signaled, clock, loop_pc,
                   scratch, ingest, config, cancelled_in, add_hit>>

\* lines 187-193, then book_manager.download_book, lines 253-260: the stream
\* has ended; the size test, and the write of the buffer to book_path
download_url_finish(t) ==
    /\ t.pc = "links"
    /\ dl_pc = "stream"
    /\ pbar_n = body
    /\ Returned
    /\ IF BelowExpected(pbar_n, total_size) /\ IsMarkup(content_type)
       THEN /\ dl_last' = Ended("None", "html", t)
            /\ active_futures' = Replace(t, LinkFailed(t))
            /\ UNCHANGED scratch
       ELSE /\ dl_last' = Ended("buffer", "complete", t)
            /\ scratch' = scratch \cup {BookName(t.id)}
            /\ active_futures' = Replace(t, [t EXCEPT !.pc = "after", !.success = TRUE])
    /\ UNCHANGED <<pageVars, apiVars, auxVars, progress, size_hint, queueVars, signaled, clock, loop_pc,
                   ingest, config, cancelled_in, add_hit>>

(* ------------------------------ get_book_data -------------------------- *)
\* BookInfo.download_path = None
NoPath == <<>>

\* no get_book_data call has been made
NoRead == [id |-> None, result |-> "none", details |-> "none"]

\* line 52: open(path, "rb") finds the file the recorded path names
Readable(id) == download_path[id] # NoPath /\ download_path[id] \in ingest

\* book_service.get_book_data, lines 40-58
get_book_data(id) ==
    /\ IF status[id] = Absent
       THEN \* line 50 raises KeyError before book_info is bound; the handler
            \* reads book_info at line 56, and the UnboundLocalError leaves
            \* the function
            /\ read_res' = [id |-> id, result |-> "raised",
                            details |-> "UnboundLocalError"]
            /\ UNCHANGED download_path
       ELSE IF Readable(id)
       THEN \* lines 52-53
            /\ read_res' = [id |-> id, result |-> "bytes", details |-> "book_info"]
            /\ UNCHANGED download_path
       ELSE \* open raises; lines 54-58
            /\ download_path' = [download_path EXCEPT ![id] = NoPath]
            /\ read_res' = [id |-> id, result |-> "None", details |-> "book_info"]
    /\ UNCHANGED <<queueVars, signaled, clock, active_futures, loop_pc, scratch,
                   ingest, config, netVars, auxVars, cancelled_in, add_hit, last_call,
                   search_req, search_res, registry, reg_threads, reg_built>>

(* ------------------------------ api_search_view ------------------------ *)
\* models.py, lines 48-56: the fields of the dataclass SearchFilters
SearchFiltersFields == {"isbn", "authors", "title", "lang", "sort", "content", "format"}

\* blueprint.py, lines 38-46: the keywords api_search_view passes to SearchFilters
ViewKeywords == {"isbn", "author", "title", "lang", "sort", "content", "format"}

\* the generated __init__ of a dataclass accepts only its fields as keywords
Constructs(keywords) == keywords \subseteq SearchFiltersFields

\* line 48: any(vars(filters).values()), for the request arguments given
AnyFilter(given) == (given \cap SearchFiltersFields) # {}

\* no request has been made / answered
NoRequest == [query |-> "", given |-> {}]
NoAnswer == [code |-> 0, body |-> "none", network |-> FALSE, archive |-> FALSE]

\* blueprint.api_search_view, lines 33-56: search_req is answered
api_search_view ==
    /\ search_res = NoAnswer
    /\ search_res' =
          IF ~Constructs(ViewKeywords)
          THEN \* lines 38-46 raise TypeError outside the try: Flask answers 500
               [code |-> 500, body |-> "TypeError", network |-> FALSE, archive |-> FALSE]
          ELSE IF search_req.query = "" /\ ~AnyFilter(search_req.given)
          THEN \* lines 48-49
               [code |-> 200, body |-> "[]", network |-> FALSE, archive |-> FALSE]
          ELSE \* lines 51-56: search_books(query, filters) lacks the
               \* argument archive of book_service.py:23; the TypeError is
               \* caught at line 54
               [code |-> 500, body |-> "error", network |-> FALSE, archive |-> FALSE]
    /\ UNCHANGED <<queueVars, signaled, clock, active_futures, loop_pc, scratch,
                   ingest, config, netVars, auxVars, cancelled_in, add_hit, last_call,
                   download_path, read_res, search_req, registry, reg_threads,
                   reg_built>>

(* ------------------------------ service registry ----------------------- *)
\* registry.py, line 21: registry = None
Unset == 0

Threads == 1..NumThreads

\* a thread that has not called get_or_create_service_registry
Outside == [pc |-> "outside", result |-> -1, got |-> "none"]

\* registry.py, line 46: the test made under the lock
InnerCheck(r) == r # Unset

\* _lock is held by a thread inside the with block of lines 45-47
LockHeld == \E th \in Threads : reg_threads[th].pc = "locked"

regFrame == <<queueVars, signaled, clock, active_futures, loop_pc, scratch,
              ingest, config, netVars, auxVars, cancelled_in, add_hit, last_call,
              download_path, read_res, search_req, search_res>>

\* get_or_create_service_registry, line 43: the unlocked test
get_or_create_test(th) ==
    /\ reg_threads[th].pc = "outside"
    /\ reg_threads' =
          [reg_threads EXCEPT ![th] =
              IF registry = Unset THEN [@ EXCEPT !.pc = "acquire"]
              ELSE [@ EXCEPT !.pc = "returned", !.result = registry]]
    /\ UNCHANGED <<registry, reg_built, regFrame>>

\* line 45: the lock is acquired
get_or_create_acquire(th) ==
    /\ reg_threads[th].pc = "acquire"
    /\ ~LockHeld
    /\ reg_threads' = [reg_threads EXCEPT ![th].pc = "locked"]
    /\ UNCHANGED <<registry, reg_built, regFrame>>

\* lines 46-47: the test under the lock, _initialize_service_registry when it
\* passes, and the release of the lock
get_or_create_locked(th) ==
    /\ reg_threads[th].pc = "locked"
    /\ IF InnerCheck(registry)
       THEN /\ registry' = reg_built + 1
            /\ reg_built' = reg_built + 1
       ELSE UNCHANGED <<registry, reg_built>>
    /\ reg_threads' = [reg_threads EXCEPT ![th].pc = "released"]
    /\ UNCHANGED regFrame

\* lines 48-49: return registry
get_or_create_return(th) ==
    /\ reg_threads[th].pc = "released"
    /\ reg_threads' = [reg_threads EXCEPT ![th].pc = "returned", ![th].result = registry]
    /\ UNCHANGED <<registry, reg_built, regFrame>>

\* lines 53-57
raise_if_uninitialized == registry = Unset

\* the getters of lines 59-73
Services == {"web_bypassers", "archive_managers", "queue"}

\* get_web_bypassers, get_archive_managers, get_book_queue, called by a thread
\* after its get_or_create_service_registry has returned
get_service(th, which) ==
    /\ reg_threads[th].pc = "returned"
    /\ reg_threads' =
          [reg_threads EXCEPT ![th].pc = "got",
                              ![th].got = IF raise_if_uninitialized
                                          THEN "ValueError" ELSE which]
    /\ UNCHANGED <<registry, reg_built, regFrame>>

(* ------------------- book_manager.download_book: the links ------------- *)
\* the number of download_book calls a run follows
MaxAttempts == 2

\* the fast-download link built from the donor key (lines 241-244); the links
\* scraped from the detail page are 1..NumLinks
FastUrl == 0

\* models.py: BookInfo.download_urls as parsers/annas_archive.py builds it, a
\* list of distinct links; the dataclass default is the empty list
UrlLists ==
    {<<>>} \cup
    {l \in UNION {[1..n -> 1..NumLinks] : n \in 1..NumLinks} :
        \A i, j \in DOMAIN l : i # j => l[i] # l[j]}

\* lines 241-244: download_links.insert(0, fast link)
InsertFirst(l) == <<FastUrl>> \o l

\* lines 235-246 of download_book(book_info, ...) for the stored item id: with
\* an empty stored list the name book_info is rebound to a freshly fetched
\* BookInfo (line 236), otherwise download_links is the stored list itself
\* (line 237); with a donor key the fast link is inserted into that list in
\* place; the for loop of line 246 then iterates download_links
download_book_links(id) ==
    /\ Len(links_run) < MaxAttempts
    /\ \E fetched \in UrlLists \ {<<>>} :
          LET aliased == Len(download_urls[id]) # 0
              download_links == IF aliased THEN download_urls[id] ELSE fetched
              iterated == IF AA_DONATOR_KEY THEN InsertFirst(download_links)
                          ELSE download_links
          IN /\ download_urls' = IF aliased
                                 THEN [download_urls EXCEPT ![id] = iterated]
                                 ELSE download_urls
             /\ links_run' = Append(links_run, [id |-> id, links |-> iterated])
    /\ UNCHANGED <<by_threads, cache, cache_lock, ck_threads, loads, AA_DONATOR_KEY>>
    /\ UNCHANGED <<queueVars, signaled, clock, active_futures, loop_pc, scratch,
                   ingest, config, netVars, apiVars, cancelled_in, add_hit>>

(* ------------- web_bypassers.cloudflare: get_bypassed_page ------------- *)
\* the number of browser-automation commands one page load issues
MaxCommands == 2

\* a caller outside get_bypassed_page; cmds counts the commands its page load
\* has issued, html is what the engine handed back, result how the call ended
NoPageCall == [pc |-> "out", cmds |-> 0, html |-> None, result |-> "none"]

\* the callers that are driving the browser session
Driving == {th \in Threads : by_threads[th].pc = "browser"}

\* the engine's mutex: the one session is free when no caller is driving it
SessionFree_always == TRUE
SessionFree == Driving = {}

\* what a step of get_bypassed_page leaves alone
bypassFrame == <<queueVars, signaled, clock, active_futures, loop_pc, scratch,
                 ingest, config, netVars, apiVars, cancelled_in, add_hit,
                 cache, cache_lock, ck_threads, loads, download_urls,
                 AA_DONATOR_KEY, links_run>>

\* line 18: get_bypassed_page(url) calls internal_engine.get(url, retry)
get_bypassed_page_call(th) ==
    /\ by_threads[th].pc = "out"
    /\ by_threads' = [by_threads EXCEPT ![th] =
                         [pc |-> "wait", cmds |-> 0, html |-> None, result |-> "none"]]
    /\ UNCHANGED bypassFrame

\* the engine serialises its callers: a page load starts once the session is free
engine_acquire(th) ==
    /\ by_threads[th].pc = "wait"
    /\ SessionFree
    /\ by_threads' = [by_threads EXCEPT ![th].pc = "browser"]
    /\ UNCHANGED bypassFrame

\* one browser-automation command of the page load, on the one session
engine_command(th) ==
    /\ by_threads[th].pc = "browser"
    /\ by_threads[th].cmds < MaxCommands
    /\ by_threads' = [by_threads EXCEPT ![th].cmds = @ + 1]
    /\ UNCHANGED bypassFrame

\* the page load ends with the rendered page or with nothing, and the session
\* is handed to the next caller
engine_release(th) ==
    /\ by_threads[th].pc = "browser"
    /\ by_threads[th].cmds = MaxCommands
    /\ \E html \in {"page", ""} :
          by_threads' = [by_threads EXCEPT ![th].pc = "got", ![th].html = html]
    /\ UNCHANGED bypassFrame

\* lines 19-23: a non-blank page is returned, anything else raises
\* requests.exceptions.RequestException
get_bypassed_page_return(th) ==
    /\ by_threads[th].pc = "got"
    /\ by_threads' = [by_threads EXCEPT
                         ![th].pc = "out",
                         ![th].result = IF by_threads[th].html # "" THEN "html"
                                        ELSE "raised"]
    /\ UNCHANGED bypassFrame

(* ------------------- threading_utils.cached_lookup --------------------- *)
\* the keys looked up, and the number of loader runs a run follows
NumKeys == 2
MaxLoads == 3

Keys == 1..NumKeys

\* a caller outside cached_lookup; result is the value the last call returned
\* (0: none), hit whether it came from the cache, raised whether the loader's
\* exception left the call
NoLookup == [pc |-> "out", key |-> 0, result |-> 0, hit |-> FALSE, raised |-> FALSE]

\* line 3: key in cache
CacheHit_never(c, k) == FALSE
CacheHit(c, k) == c[k] # 0

\* the holder of the lock once the with block of lines 2-4 is left: nobody
LockAfterCheck_kept(th) == th
LockAfterCheck(th) == 0

\* what a step of cached_lookup leaves alone
cacheFrame == <<queueVars, signaled, clock, active_futures, loop_pc, scratch,
                ingest, config, netVars, apiVars, cancelled_in, add_hit,
                by_threads, download_urls, AA_DONATOR_KEY, links_run>>

\* line 1: a caller enters cached_lookup(cache, lock, key, loader)
cached_lookup_call(th, k) ==
    /\ ck_threads[th].pc = "out"
    /\ ck_threads' = [ck_threads EXCEPT ![th] =
                         [pc |-> "enter", key |-> k, result |-> 0,
                          hit |-> FALSE, raised |-> FALSE]]
    /\ UNCHANGED <<cache, cache_lock, loads>>
    /\ UNCHANGED cacheFrame

\* line 2: with lock, the acquisition
cached_lookup_acquire(th) ==
    /\ ck_threads[th].pc = "enter"
    /\ cache_lock = 0
    /\ cache_lock' = th
    /\ ck_threads' = [ck_threads EXCEPT ![th].pc = "check"]
    /\ UNCHANGED <<cache, loads>>
    /\ UNCHANGED cacheFrame

\* lines 3-4: the test under the lock; a hit returns cache[key], and leaving
\* the with block releases the lock either way
cached_lookup_check(th) ==
    /\ ck_threads[th].pc = "check"
    /\ cache_lock' = LockAfterCheck(th)
    /\ IF CacheHit(cache, ck_threads[th].key)
       THEN ck_threads' = [ck_threads EXCEPT ![th].pc = "out",
                                             ![th].result = cache[ck_threads[th].key],
                                             ![th].hit = TRUE]
       ELSE ck_threads' = [ck_threads EXCEPT ![th].pc = "load"]
    /\ UNCHANGED <<cache, loads>>
    /\ UNCHANGED cacheFrame

\* line 5: result = loader(), outside the lock; every run of the loader yields
\* a result of its own, or raises, which ends the call
cached_lookup_load(th) ==
    /\ ck_threads[th].pc = "load"
    /\ loads < MaxLoads
    /\ loads' = loads + 1
    /\ \/ ck_threads' = [ck_threads EXCEPT ![th].pc = "store",
                                           ![th].result = loads + 1]
       \/ ck_threads' = [ck_threads EXCEPT ![th].pc = "out",
                                           ![th].raised = TRUE]
    /\ UNCHANGED <<cache, cache_lock>>
    /\ UNCHANGED cacheFrame

\* line 6: with lock, the second acquisition
cached_lookup_acquire_store(th) ==
    /\ ck_threads[th].pc = "store"
    /\ cache_lock = 0
    /\ cache_lock' = th
    /\ ck_threads' = [ck_threads EXCEPT ![th].pc = "write"]
    /\ UNCHANGED <<cache, loads>>
    /\ UNCHANGED cacheFrame

\* lines 7-8: cache[key] = result, the release of the lock, return result
cached_lookup_store(th) ==
    /\ ck_threads[th].pc = "write"
    /\ cache' = [cache EXCEPT ![ck_threads[th].key] = ck_threads[th].result]
    /\ cache_lock' = 0
    /\ ck_threads' = [ck_threads EXCEPT ![th].pc = "out"]
    /\ UNCHANGED loads
    /\ UNCHANGED cacheFrame

(* ----------------------------- specification --------------------------- *)
\* the state after construction; Init fixes the file naming to the default of
\* settings.USE_BOOK_TITLE ("false"), InitTitle to title-based naming
\* no html_get_page call is in progress
PageIdle(cf) ==
    /\ USE_CF_BYPASS = cf
    /\ retry = MAX_RETRY
    /\ use_bypasser = FALSE
    /\ page_pc = "idle"
    /\ page_result = None
    /\ page_log = <<>>

\* no progress has been recorded and no download_url call is in progress
DownloadIdle(hint) ==
    /\ progress = [id \in Ids |-> <<0, 1>>]
    /\ size_hint = hint
    /\ dl_pc = "idle"
    /\ total_size = 0
    /\ content_type = None
    /\ body = 0
    /\ pbar_n = 0
    /\ dl_last = [result |-> "none", why |-> "none", link |-> 0, n |-> 0,
                  total |-> 0, body |-> 0, ctype |-> None]

\* no view has been called, no path is recorded, the registry is unset
ApiIdle ==
    /\ last_call = NoCall
    /\ download_path = [id \in Ids |-> NoPath]
    /\ read_res = NoRead
    /\ search_req = NoRequest
    /\ search_res = NoAnswer
    /\ registry = Unset
    /\ reg_threads = [th \in Threads |-> Outside]
    /\ reg_built = 0

\* no bypasser call and no lookup is in progress, the cache is empty, and no
\* candidate link is stored
AuxIdle ==
    /\ by_threads = [th \in Threads |-> NoPageCall]
    /\ cache = [k \in Keys |-> 0]
    /\ cache_lock = 0
    /\ ck_threads = [th \in Threads |-> NoLookup]
    /\ loads = 0
    /\ download_urls = [id \in Ids |-> <<>>]
    /\ AA_DONATOR_KEY = FALSE
    /\ links_run = <<>>

InitWith(use_title) ==
    /\ status = [id \in Ids |-> Absent]
    /\ priority = [id \in Ids |-> 0]
    /\ enqueued_at = [id \in Ids |-> 0]
    /\ cancel_token = [id \in Ids |-> 0]
    /\ reserved = [id \in Ids |-> FALSE]
    /\ signaled = {}
    /\ clock = 1
    /\ active_futures = {}
    /\ loop_pc = "reap"
    /\ scratch = {}
    /\ ingest = {}
    /\ USE_BOOK_TITLE = use_title
    /\ MAX_CONCURRENT_DOWNLOADS \in 1..MaxPool
    /\ cancelled_in = [k \in 1..MaxAdmissions |-> "no"]
    /\ add_hit = [id \in Ids |-> FALSE]
    /\ PageIdle(FALSE)
    /\ DownloadIdle(<<>>)
    /\ ApiIdle
    /\ AuxIdle

Init == InitWith(FALSE)

InitTitle == InitWith(TRUE)

ReorderMaps == UNION {[S -> Priorities] : S \in SUBSET Ids}

Next ==
    \/ \E id \in Ids, p \in Priorities : queue_book(id, p)
    \/ \E id \in Ids : cancel_download(id)
    \/ \E id \in Ids, p \in Priorities : set_book_priority(id, p)
    \/ \E m \in ReorderMaps : reorder_queue(m)
    \/ clear_completed
    \/ Reap
    \/ Dispatch
    \/ FillEnd
    \/ \E t \in active_futures : process_single_download_start(t)
    \/ \E t \in active_futures : down_begin(t)
    \/ \E t \in active_futures : download_book(t)
    \/ \E t \in active_futures : down_handoff(t)
    \/ \E t \in active_futures : down_rename(t)
    \/ \E t \in active_futures : process_single_download_finish(t)
    \/ \E t \in active_futures : process_single_download_raise(t)

Spec == Init /\ [][Next]_vars

\* the same system with USE_BOOK_TITLE switched on
SpecTitle == InitTitle /\ [][Next]_vars

\* the queue and the coordinator at rest, as InitWith leaves them
QueueAtRest ==
    /\ status = [id \in Ids |-> Absent]
    /\ priority = [id \in Ids |-> 0]
    /\ enqueued_at = [id \in Ids |-> 0]
    /\ cancel_token = [id \in Ids |-> 0]
    /\ reserved = [id \in Ids |-> FALSE]
    /\ signaled = {}
    /\ clock = 1
    /\ active_futures = {}
    /\ loop_pc = "reap"
    /\ scratch = {}
    /\ ingest = {}
    /\ USE_BOOK_TITLE = FALSE
    /\ MAX_CONCURRENT_DOWNLOADS = 1
    /\ cancelled_in = [k \in 1..MaxAdmissions |-> "no"]
    /\ add_hit = [id \in Ids |-> FALSE]

\* html_get_page on its own, with and without a configured bypasser
InitPage ==
    /\ QueueAtRest
    /\ \E cf \in BOOLEAN : PageIdle(cf)
    /\ DownloadIdle(<<>>)
    /\ ApiIdle
    /\ AuxIdle

NextPage ==
    \/ \E bp \in BOOLEAN : html_get_page_call(bp)
    \/ \E outcome \in {"page", "None", "404", "403", "raise"} : html_get_page(outcome)

SpecPage == InitPage /\ [][NextPage]_vars

\* a worker has claimed book a, written downloading (line 214) and entered the
\* link loop of book_manager.download_book
InitBinary ==
    /\ status = [id \in Ids |-> IF id = "a" THEN "downloading" ELSE Absent]
    /\ priority = [id \in Ids |-> 0]
    /\ enqueued_at = [id \in Ids |-> IF id = "a" THEN 1 ELSE 0]
    /\ cancel_token = [id \in Ids |-> IF id = "a" THEN 1 ELSE 0]
    /\ reserved = [id \in Ids |-> id = "a"]
    /\ signaled = {}
    /\ clock = 2
    /\ active_futures = {[NewTask("a", 1) EXCEPT !.pc = "links", !.link = 1]}
    /\ loop_pc = "reap"
    /\ scratch = {}
    /\ ingest = {}
    /\ USE_BOOK_TITLE = FALSE
    /\ MAX_CONCURRENT_DOWNLOADS = 1
    /\ cancelled_in = [k \in 1..MaxAdmissions |-> "no"]
    /\ add_hit = [id \in Ids |-> FALSE]
    /\ PageIdle(FALSE)
    /\ \E hint \in SizeHints : DownloadIdle(hint)
    /\ ApiIdle
    /\ AuxIdle

\* the link loop with its download_url calls, and the cancel of the item
NextBinary ==
    \/ \E id \in Ids : cancel_download(id)
    \/ \E t \in active_futures : download_url_request(t)
    \/ \E t \in active_futures : download_url_chunk(t)
    \/ \E t \in active_futures : download_url_abort(t)
    \/ \E t \in active_futures : download_url_finish(t)

SpecBinary == InitBinary /\ [][NextBinary]_vars

\* the queue behind its reorder view: admissions, cancels and reorders while
\* the coordinator claims and the workers start and end
InitQueue == Init

NextQueue ==
    \/ \E id \in Ids, p \in Priorities : queue_book(id, p)
    \/ \E id \in Ids : cancel_download(id)
    \/ \E m \in ReorderMaps : api_reorder_queue_view(m)
    \/ Reap
    \/ Dispatch
    \/ FillEnd
    \/ \E t \in active_futures : process_single_download_start(t)
    \/ \E t \in active_futures : down_begin(t)
    \/ \E t \in active_futures : process_single_download_finish(t)

SpecQueue == InitQueue /\ [][NextQueue]_vars

\* the queue behind its clear view, with one worker that downloads
InitSweep ==
    /\ QueueAtRest
    /\ PageIdle(FALSE)
    /\ DownloadIdle(<<>>)
    /\ ApiIdle
    /\ AuxIdle

NextSweep ==
    \/ \E id \in Ids, p \in Priorities : queue_book(id, p)
    \/ \E id \in Ids : cancel_download(id)
    \/ api_clear_completed_view
    \/ Reap
    \/ Dispatch
    \/ FillEnd
    \/ \E t \in active_futures : process_single_download_start(t)
    \/ \E t \in active_futures : down_begin(t)
    \/ \E t \in active_futures : download_book(t)
    \/ \E t \in active_futures : down_handoff(t)
    \/ \E t \in active_futures : down_rename(t)
    \/ \E t \in active_futures : process_single_download_finish(t)

SpecSweep == InitSweep /\ [][NextSweep]_vars

\* admission numbers of the two books where both are tracked
Admitted(id) == IF id = "a" THEN 1 ELSE 2

\* what get_book_data can find for an id: no entry, a queued entry, an entry
\* whose download failed, an available entry with its file in the ingest
\* directory, or an available entry whose file the ingest consumer has taken
Shelves == {"untracked", "queued", "error", "available", "consumed"}

\* the queue after downloads have ended, with no worker running
InitRead ==
    \E sh \in [Ids -> Shelves] :
       /\ USE_BOOK_TITLE \in BOOLEAN
       /\ MAX_CONCURRENT_DOWNLOADS = 1
       /\ status = [id \in Ids |->
                      CASE sh[id] = "untracked" -> Absent
                        [] sh[id] = "queued" -> "queued"
                        [] sh[id] = "error" -> "error"
                        [] OTHER -> "available"]
       /\ priority = [id \in Ids |-> 0]
       /\ enqueued_at = [id \in Ids |-> IF sh[id] = "untracked" THEN 0 ELSE Admitted(id)]
       /\ cancel_token = [id \in Ids |-> IF sh[id] = "untracked" THEN 0 ELSE Admitted(id)]
       /\ reserved = [id \in Ids |-> sh[id] \in {"error", "available", "consumed"}]
       /\ signaled = {}
       /\ clock = 3
       /\ active_futures = {}
       /\ loop_pc = "reap"
       /\ scratch = {}
       /\ ingest = {FinalPath(id) : id \in {i \in Ids : sh[i] = "available"}}
       /\ cancelled_in = [k \in 1..MaxAdmissions |-> "no"]
       /\ add_hit = [id \in Ids |-> FALSE]
       /\ PageIdle(FALSE)
       /\ DownloadIdle(<<>>)
       /\ last_call = NoCall
       /\ download_path = [id \in Ids |->
                             IF sh[id] \in {"available", "consumed"}
                             THEN FinalPath(id) ELSE NoPath]
       /\ read_res = NoRead
       /\ search_req = NoRequest
       /\ search_res = NoAnswer
       /\ registry = Unset
       /\ reg_threads = [th \in Threads |-> Outside]
       /\ reg_built = 0
       /\ AuxIdle

NextRead == \E id \in Ids : get_book_data(id)

SpecRead == InitRead /\ [][NextRead]_vars

\* a search request with any query and any arguments
InitSearch ==
    /\ QueueAtRest
    /\ PageIdle(FALSE)
    /\ DownloadIdle(<<>>)
    /\ last_call = NoCall
    /\ download_path = [id \in Ids |-> NoPath]
    /\ read_res = NoRead
    /\ search_req \in [query : {"", "q"}, given : SUBSET ViewKeywords]
    /\ search_res = NoAnswer
    /\ registry = Unset
    /\ reg_threads = [th \in Threads |-> Outside]
    /\ reg_built = 0
    /\ AuxIdle

NextSearch == api_search_view

SpecSearch == InitSearch /\ [][NextSearch]_vars

\* threads that call the registry for the first time
InitRegistry ==
    /\ QueueAtRest
    /\ PageIdle(FALSE)
    /\ DownloadIdle(<<>>)
    /\ ApiIdle
    /\ AuxIdle

NextRegistry ==
    \/ \E th \in Threads : get_or_create_test(th)
    \/ \E th \in Threads : get_or_create_acquire(th)
    \/ \E th \in Threads : get_or_create_locked(th)
    \/ \E th \in Threads : get_or_create_return(th)
    \/ \E th \in Threads, which \in Services : get_service(th, which)

SpecRegistry == InitRegistry /\ [][NextRegistry]_vars

\* download attempts over stored items with and without candidate links, with
\* and without a donor key
InitLinks ==
    /\ QueueAtRest
    /\ PageIdle(FALSE)
    /\ DownloadIdle(<<>>)
    /\ ApiIdle
    /\ by_threads = [th \in Threads |-> NoPageCall]
    /\ cache = [k \in Keys |-> 0]
    /\ cache_lock = 0
    /\ ck_threads = [th \in Threads |-> NoLookup]
    /\ loads = 0
    /\ download_urls \in [Ids -> UrlLists]
    /\ AA_DONATOR_KEY \in BOOLEAN
    /\ links_run = <<>>

NextLinks == \E id \in Ids : download_book_links(id)

SpecLinks == InitLinks /\ [][NextLinks]_vars

\* threads that look keys up in one shared cache
InitCache == InitRegistry

NextCache ==
    \/ \E th \in Threads, k \in Keys : cached_lookup_call(th, k)
    \/ \E th \in Threads : cached_lookup_acquire(th)
    \/ \E th \in Threads : cached_lookup_check(th)
    \/ \E th \in Threads : cached_lookup_load(th)
    \/ \E th \in Threads : cached_lookup_acquire_store(th)
    \/ \E th \in Threads : cached_lookup_store(th)

SpecCache == InitCache /\ [][NextCache]_vars

\* workers that fetch pages through the one browser-based bypasser
InitBypass == InitRegistry

NextBypass ==
    \/ \E th \in Threads : get_bypassed_page_call(th)
    \/ \E th \in Threads : engine_acquire(th)
    \/ \E th \in Threads : engine_command(th)
    \/ \E th \in Threads : engine_release(th)
    \/ \E th \in Threads : get_bypassed_page_return(th)

SpecBypass == InitBypass /\ [][NextBypass]_vars

\* the coordinator with one worker slot and two books, under the scheduling
\* of the program: the loop thread keeps running (the sleep of line 271 ends),
\* and a submitted task is run by its pool thread and every call in it returns
InitLive == InitSweep

NextLive ==
    \/ \E id \in Ids, p \in Priorities : queue_book(id, p)
    \/ \E id \in Ids : cancel_download(id)
    \/ Reap
    \/ Dispatch
    \/ FillEnd
    \/ \E t \in active_futures : process_single_download_start(t)
    \/ \E t \in active_futures : down_begin(t)
    \/ \E t \in active_futures : download_book(t)
    \/ \E t \in active_futures : down_handoff(t)
    \/ \E t \in active_futures : down_rename(t)
    \/ \E t \in active_futures : process_single_download_finish(t)

Fairness ==
    /\ WF_vars(Reap)
    /\ WF_vars(Dispatch)
    /\ WF_vars(FillEnd)
    /\ WF_vars(\E t \in active_futures : process_single_download_start(t))
    /\ WF_vars(\E t \in active_futures : down_begin(t))
    /\ WF_vars(\E t \in active_futures : download_book(t))
    /\ WF_vars(\E t \in active_futures : down_handoff(t))
    /\ WF_vars(\E t \in active_futures : down_rename(t))
    /\ WF_vars(\E t \in active_futures : process_single_download_finish(t))

SpecLive == InitLive /\ [][NextLive]_vars /\ Fairness

(* -------------------------------- claims ------------------------------- *)
\* tasks dispatched and still running (not yet returned)
Running == {t \in active_futures : ~FutureDone(t)}

\* the tasks a step submits
Submitted == {t \in active_futures' \ active_futures : t.pc = "start"}

\* the tasks whose _process_single_download returns in a step
Finishing ==
    {t \in active_futures :
        t.pc = "post" /\ t \notin active_futures' /\ Done(t) \in active_futures'}

\* a get_next call of the coordinator that returned nothing
GetNextReturnedNothing ==
    loop_pc = "fill" /\ loop_pc' = "reap" /\ HasCapacity

\* C1: no id is held by two running worker tasks at the same time
C1_NoDoubleClaim ==
    \A t1, t2 \in Running : t1.id = t2.id => t1 = t2

\* C2 as stated: a claim takes the smallest (priority, enqueue time) among the
\* items in status queued, and get_next returns nothing only when no item is
\* in status queued
C2_LowestOfStatusQueued ==
    [][ /\ \A t \in Submitted :
              /\ status[t.id] = "queued"
              /\ \A o \in Ids \ {t.id} :
                    status[o] = "queued" =>
                       \/ priority[t.id] < priority[o]
                       \/ /\ priority[t.id] = priority[o]
                          /\ enqueued_at[t.id] < enqueued_at[o]
        /\ GetNextReturnedNothing => \A id \in Ids : status[id] # "queued"
      ]_vars

\* C2 amended: a claim takes the smallest (priority, enqueue time) among the
\* queued items no earlier get_next has handed out, and get_next returns
\* nothing only when every queued item has already been handed out
C2_LowestOfReady ==
    [][ /\ \A t \in Submitted :
              /\ Ready(t.id)
              /\ \A o \in Ids \ {t.id} :
                    Ready(o) =>
                       \/ priority[t.id] < priority[o]
                       \/ /\ priority[t.id] = priority[o]
                          /\ enqueued_at[t.id] < enqueued_at[o]
        /\ GetNextReturnedNothing => \A id \in Ids : ~Ready(id)
      ]_vars

\* a task was just handed an item although an older ready item with a larger
\* priority number is waiting
C2_Witness ==
    \E t \in active_futures : \E o \in Ids :
        /\ t.pc = "start"
        /\ status[t.id] = "queued"
        /\ Ready(o)
        /\ priority[t.id] < priority[o]
        /\ enqueued_at[o] < enqueued_at[t.id]

\* C3: a worker whose item was cancelled while downloading returns with the
\* item cancelled and with no file of the item in scratch or ingest
C3_CancelDownloadingLeavesNothing ==
    [][ \A t \in Finishing :
           cancelled_in[t.tok] = "downloading" =>
              /\ status'[t.id] = "cancelled"
              /\ BookName(t.id) \notin scratch'
              /\ IntermediatePath(t.id) \notin ingest'
              /\ FinalPath(t.id) \notin ingest'
      ]_vars

\* C4: an entry that was cancelled while queued is never in status downloading
C4_CancelledQueuedNeverDownloading ==
    \A id \in Ids :
        (cancel_token[id] # 0 /\ cancelled_in[cancel_token[id]] = "queued")
           => status[id] # "downloading"

\* the status changes of the state machine, plus re-add and sweep
LegalTransition(s1, s2) ==
    \/ s1 = s2
    \/ <<s1, s2>> \in {<<"queued", "downloading">>, <<"downloading", "available">>,
                       <<"downloading", "error">>, <<"downloading", "cancelled">>,
                       <<"queued", "cancelled">>, <<"available", "done">>}
    \/ s1 \in Terminal \cup {Absent} /\ s2 = "queued"
    \/ s1 \in Terminal /\ s2 = Absent

\* C5: every status change is a transition of the state machine; a terminal
\* status is left only by a re-add (or by the sweep that removes the entry)
C5_LegalTransitions ==
    [][ \A id \in Ids :
           /\ LegalTransition(status[id], status'[id])
           /\ (status[id] \in Terminal /\ status'[id] = "queued")
                 => cancel_token'[id] # cancel_token[id]
      ]_vars

\* C6: at most MAX_CONCURRENT_DOWNLOADS tasks are dispatched and not reaped,
\* and an item is claimed only in a step that finds a free slot and submits it
C6_BoundedPool ==
    /\ [](Cardinality(active_futures) <= MAX_CONCURRENT_DOWNLOADS)
    /\ [][ \A id \in Ids :
              (~reserved[id] /\ reserved'[id]) =>
                 /\ Cardinality(active_futures) < MAX_CONCURRENT_DOWNLOADS
                 /\ \E t \in Submitted : t.id = id
         ]_vars

\* the pool is full while a ready item waits and the loop is at its capacity test
C6_Witness ==
    /\ Cardinality(active_futures) = MAX_CONCURRENT_DOWNLOADS
    /\ loop_pc = "fill"
    /\ \E id \in Ids : Ready(id)

\* C7: when a worker marks its item available, the ingest directory holds the
\* item's file under its final name and neither the scratch file nor the
\* intermediate-named file of the item exists
C7_AvailableLeavesOneFile ==
    [][ \A t \in Finishing :
           (status[t.id] # "available" /\ status'[t.id] = "available") =>
              /\ FinalPath(t.id) \in ingest'
              /\ IntermediatePath(t.id) \notin ingest'
              /\ BookName(t.id) \notin scratch'
      ]_vars

SameTask(t, u) == t.id = u.id /\ t.tok = u.tok

\* C10: the links are tried in their listed order, none after the first that
\* yields data; a worker that is not cancelled and whose every link failed
\* leaves its item in status error; only a queued, never claimed entry is
\* handed to a worker
C10_SourcesInOrderThenError ==
    [][ /\ \A t \in active_futures : \A u \in active_futures' :
              SameTask(t, u) =>
                 /\ (t.pc = "down" /\ u.pc = "links") => u.link = 1
                 /\ (t.pc = "links" /\ u.pc = "links") => u.link \in {t.link, t.link + 1}
                 /\ (t.pc = "links" /\ u.pc = "after" /\ ~u.success) =>
                       (t.link = NumLinks /\ u.link = NumLinks + 1)
                 /\ (t.pc = "links" /\ u.pc = "after" /\ u.success) => u.link = t.link
                 /\ u.pc = "links" => t.pc \in {"down", "links"}
        /\ \A t \in Finishing :
              (t.link > NumLinks /\ ~t.success /\ t.tok \notin signaled) =>
                 status'[t.id] = "error"
        /\ \A t \in Submitted :
              status[t.id] = "queued" /\ ~reserved[t.id] /\ t.tok = cancel_token[t.id]
      ]_vars

Failed(a) == a.outcome \in {"404", "403", "raise"}

\* the attempt page_log[i] was followed by a retry
Retried(i) == i < Len(page_log) \/ (i = Len(page_log) /\ page_pc = "call")

C14_LinearBackoff ==
    \A k \in 1..Len(page_log) :
        (Retried(k) /\ \A j \in 1..k : page_log[j].outcome = "raise") =>
           /\ page_log[k].slept = DEFAULT_SLEEP * k
           /\ page_log[k].slept > 0
           /\ k > 1 => page_log[k].slept > page_log[k - 1].slept

\* three generic failures in a row, each followed by a retry
C14_Witness ==
    /\ page_pc = "call"
    /\ Len(page_log) = 3
    /\ \A j \in 1..3 : page_log[j].outcome = "raise"
    /\ page_log[3].slept = 3 * DEFAULT_SLEEP

\* the retry ladder after attempt i: every later failure that is retried was
\* retried after a backoff sleep, and the budget fell by one per attempt
LadderResumes(i) ==
    \A j \in (i + 1)..Len(page_log) :
        /\ page_log[j].retry = page_log[j - 1].retry - 1
        /\ (Retried(j) /\ page_log[j].outcome = "raise") =>
              page_log[j].slept = DEFAULT_SLEEP * (MAX_RETRY - page_log[j].retry + 1)

C16_BypasserIsSticky ==
    \A i \in 1..Len(page_log) :
        page_log[i].via = "bypasser" =>
           /\ \A j \in i..Len(page_log) : page_log[j].via = "bypasser"
           /\ page_pc = "call" => Via = "bypasser"
           /\ (page_log[i].outcome = "raise" /\ page_log[i].retry > 0) =>
                 /\ Retried(i)
                 /\ page_log[i].slept = DEFAULT_SLEEP * (MAX_RETRY - page_log[i].retry + 1)
                 /\ page_log[i].slept > 0

\* a call made with use_bypasser=True failed twice through the bypasser and
\* is about to try the bypasser a third time
C16_Witness ==
    /\ page_pc = "call"
    /\ Via = "bypasser"
    /\ Len(page_log) = 2
    /\ \A j \in 1..2 : page_log[j].via = "bypasser" /\ page_log[j].outcome = "raise"

\* the step is a step of the running download_url call
DownloadStep == <<dl_pc, pbar_n>>' # <<dl_pc, pbar_n>>

\* C17: when the token is signaled while chunks of the response are still to
\* come, the next step of download_url ends the call without data, having
\* written at most one further chunk, and no file is written for the link; a
\* call that returns a buffer returns the whole body
C17_CancelStopsStream ==
    [][ /\ \A t \in active_futures :
              (dl_pc = "stream" /\ pbar_n < body /\ IsSet(t) /\ DownloadStep) =>
                 /\ dl_pc' = "idle"
                 /\ dl_last'.result \in {"None", "raised"}
                 /\ dl_last'.n <= pbar_n + 1
                 /\ scratch' = scratch
                 /\ \A u \in active_futures' : ~u.success
        /\ (dl_last' # dl_last /\ dl_last'.result = "buffer") =>
              dl_last'.n = dl_last'.body
      ]_vars

\* a download was cancelled in mid-stream: download_url returned None after
\* its second chunk, with more chunks to come
C17_Witness ==
    /\ dl_last.result = "None"
    /\ dl_last.why = "cancel"
    /\ dl_last.n = 2
    /\ dl_last.n < dl_last.body
    /\ signaled # {}
    /\ scratch = {}

FractionLe(p, q) == p[1] * q[2] <= q[1] * p[2]

\* C19: while an item stays in status downloading its recorded progress never
\* decreases
C19_ProgressMonotone ==
    [][ \A id \in Ids :
           (status[id] = "downloading" /\ status'[id] = "downloading") =>
              FractionLe(progress[id], progress'[id])
      ]_vars

\* C20: every recorded progress value lies in 0..100
C20_ProgressInRange ==
    \A id \in Ids :
        /\ FractionLe(<<0, 1>>, progress[id])
        /\ FractionLe(progress[id], <<100, 1>>)

\* the step is a reorder call that was recorded
ReorderStep == last_call' # last_call /\ last_call'.op = "reorder"

\* C21 as stated: a reorder step applies every priority of its batch to the
\* queued entries it names and changes nothing else of the queue, and no claim
\* happens inside it; and when it leaves an item in status queued with a
\* priority below that of every other item in status queued, a get_next
\* called next returns that item
C21_ReorderThenClaimOfStatusQueued ==
    [][ ReorderStep =>
          /\ \A id \in Ids :
                priority'[id] = IF last_call'.asked[id] # -1 /\ status[id] = "queued"
                                THEN last_call'.asked[id] ELSE priority[id]
          /\ UNCHANGED <<status, enqueued_at, cancel_token, reserved, active_futures>>
          /\ \A id \in Ids :
                (/\ last_call'.asked[id] # -1
                 /\ status'[id] = "queued"
                 /\ \A o \in Ids \ {id} :
                       status'[o] = "queued" => priority'[id] < priority'[o])
                   => get_next' = id
      ]_vars

\* C21 amended: the same batch property; and when the reorder leaves a queued
\* item that no get_next has handed out yet with a priority below that of
\* every other such item, a get_next called next returns that item
C21_ReorderThenClaimOfReady ==
    [][ ReorderStep =>
          /\ \A id \in Ids :
                priority'[id] = IF last_call'.asked[id] # -1 /\ status[id] = "queued"
                                THEN last_call'.asked[id] ELSE priority[id]
          /\ UNCHANGED <<status, enqueued_at, cancel_token, reserved, active_futures>>
          /\ \A id \in Ids :
                (/\ last_call'.asked[id] # -1
                 /\ Ready(id)'
                 /\ \A o \in Ids \ {id} : Ready(o)' => priority'[id] < priority'[o])
                   => get_next' = id
      ]_vars

\* a reorder lowered the priority number of the younger of two queued items,
\* and the coordinator has handed that item to a worker while the older item
\* still waits
C21_Witness ==
    \E id, o \in Ids : \E t \in active_futures :
        /\ last_call.op = "reorder"
        /\ id \in last_call.changed
        /\ last_call.asked[id] = 0
        /\ t.id = id /\ t.pc = "start" /\ t.tok = cancel_token[id]
        /\ status[id] = "queued" /\ priority[id] = 0
        /\ Ready(o) /\ priority[o] = 1
        /\ enqueued_at[o] < enqueued_at[id]

\* the step is a sweep: a recorded clear call, or a step that drops an entry
SweepStep ==
    \/ last_call' # last_call /\ last_call'.op = "clear"
    \/ \E id \in Ids : status[id] # Absent /\ status'[id] = Absent

\* C22: a sweep removes exactly the entries in status available, error, done
\* or cancelled, answers with their number, and leaves status, priority,
\* token, enqueue time and claim of every other entry as they were
C22_SweepRemovesExactlyTerminal ==
    [][ SweepStep =>
          /\ \A id \in Ids :
                IF status[id] \in {"available", "error", "done", "cancelled"}
                THEN status'[id] = Absent
                ELSE /\ status'[id] = status[id]
                     /\ priority'[id] = priority[id]
                     /\ cancel_token'[id] = cancel_token[id]
                     /\ enqueued_at'[id] = enqueued_at[id]
                     /\ reserved'[id] = reserved[id]
          /\ last_call'.op = "clear"
          /\ last_call'.answer =
                Cardinality({id \in Ids :
                    status[id] \in {"available", "error", "done", "cancelled"}})
          /\ last_call'.answer =
                Cardinality({id \in Ids : status[id] # Absent /\ status'[id] = Absent})
      ]_vars

\* the item admitted second ended available and was swept (the call answered
\* 1) while the item admitted first, never removed, is being downloaded
C22_Witness ==
    \E id, o \in Ids : \E t \in Running :
        /\ last_call.op = "clear"
        /\ last_call.answer = 1
        /\ last_call.changed = {id}
        /\ status[id] = Absent
        /\ FinalPath(id) \in ingest
        /\ clock = 3
        /\ cancel_token[o] = 1
        /\ status[o] = "downloading"
        /\ priority[o] = 1
        /\ t.id = o /\ t.tok = 1 /\ t.pc = "links"

\* C23: a get_book_data call never raises, also for an id the queue does not
\* know; it returns the bytes and the details when the file of the item is
\* readable, and otherwise None and the details, with download_path cleared;
\* it leaves every status as it was
C23_ReadNeverRaises ==
    [][ read_res' # read_res =>
          /\ read_res'.result # "raised"
          /\ read_res'.details \in {"book_info", "Unknown"}
          /\ Readable(read_res'.id) =>
                (read_res'.result = "bytes" /\ download_path' = download_path)
          /\ ~Readable(read_res'.id) =>
                (read_res'.result = "None" /\ download_path'[read_res'.id] = NoPath)
          /\ status' = status
      ]_vars

\* C24: a search with an empty query and no filter argument is answered with
\* the empty list, and neither the network nor the archive manager is used
C24_EmptySearchShortCircuits ==
    (search_res # NoAnswer /\ search_req.query = "" /\ search_req.given = {}) =>
        /\ search_res.code = 200
        /\ search_res.body = "[]"
        /\ ~search_res.network
        /\ ~search_res.archive

\* the threads whose get_or_create_service_registry has returned
Returned25 == {th \in Threads : reg_threads[th].pc \in {"returned", "got"}}

\* C25: every returned get_or_create_service_registry call returned a
\* registry, the same one for all threads, built exactly once, and no getter
\* called after it raised
C25_RegistryBuiltOnce ==
    /\ \A th \in Returned25 : reg_threads[th].result # Unset
    /\ \A t1, t2 \in Returned25 : reg_threads[t1].result = reg_threads[t2].result
    /\ reg_built <= 1
    /\ Returned25 # {} => reg_built = 1
    /\ \A th \in Threads : reg_threads[th].got # "ValueError"

\* the tasks whose _process_single_download ends in a step, by returning or
\* by raising
Ending ==
    {t \in active_futures :
        /\ t.pc = "post"
        /\ t \notin active_futures'
        /\ (Done(t) \in active_futures' \/ Raised(t) \in active_futures')}

\* C26: when the worker task of an item ends, the item, if the queue still
\* tracks it, is in status available, error or cancelled
C26_WorkerLeavesTerminal ==
    [][ \A t \in Ending :
           status[t.id] # Absent =>
              status'[t.id] \in {"available", "error", "cancelled"}
      ]_vars

\* the task t runs line 214 in the step
Starting(t) ==
    /\ t.pc = "start"
    /\ t \notin active_futures'
    /\ [t EXCEPT !.pc = "down"] \in active_futures'

\* C27: a worker that starts with its token already signaled does not put
\* its item in status downloading
C27_SignaledStartSkipsDownloading ==
    [][ \A t \in active_futures :
           (Starting(t) /\ IsSet(t)) => status'[t.id] # "downloading"
      ]_vars

\* the step starts the fetch of a candidate link: the page of the link is
\* requested, and on success the binary
FetchStarts ==
    /\ dl_pc = "idle"
    /\ \/ dl_pc' = "stream"
       \/ dl_last' # dl_last /\ dl_last'.why = "request"

\* C28: after a download_url call has ended because the token was signaled,
\* the worker starts no fetch for a further link
C28_CancelEndsLinkLoop ==
    [][ \A t \in active_futures :
           (IsSet(t) /\ t.pc = "links" /\ dl_last.why = "cancel") => ~FetchStarts
      ]_vars

\* C29: a final name appears in the ingest directory only by the rename of
\* the intermediate-named file of a task that is past its hand-over; and a
\* task comes to return its final path (for which its item is marked
\* available) only in the step of that rename
C29_FinalNameOnlyByRename ==
    [][ /\ \A id \in Ids :
              (FinalPath(id) \notin ingest /\ FinalPath(id) \in ingest') =>
                 \E t \in active_futures :
                    /\ FinalPath(t.id) = FinalPath(id)
                    /\ t.pc = "rename"
                    /\ IntermediatePath(t.id) \in ingest
                    /\ IntermediatePath(t.id) \notin ingest'
        /\ \A t \in active_futures : \A u \in active_futures' :
              (SameTask(t, u) /\ ~t.path /\ u.path) =>
                 /\ t.pc = "rename"
                 /\ IntermediatePath(t.id) \in ingest
                 /\ FinalPath(t.id) \in ingest'
        /\ \A t \in Finishing :
              (status[t.id] # "available" /\ status'[t.id] = "available") => t.path
      ]_vars

\* C30: a hand-over that has put the scratch file under the intermediate
\* name, by the first move or by a fallback, goes on to the final rename
C30_FallbackCompletes ==
    [][ \A t \in active_futures : \A u \in active_futures' :
           (/\ SameTask(t, u)
            /\ t.pc = "after" /\ u.pc # "after"
            /\ ~IsSet(t)
            /\ BookName(t.id) \in scratch
            /\ BookName(t.id) \notin scratch'
            /\ IntermediatePath(t.id) \in ingest')
              => u.pc = "rename"
      ]_vars

\* C31: a hand-over in which no attempt brings the scratch file under the
\* intermediate name leaves neither the scratch file nor an intermediate-named
\* file behind, and the worker of such a hand-over leaves its item in status
\* error
C31_FailedHandoverLeavesNothing ==
    [][ /\ \A t \in active_futures : \A u \in active_futures' :
              (/\ SameTask(t, u)
               /\ t.pc = "after" /\ u.pc = "post"
               /\ ~IsSet(t) /\ t.success
               /\ BookName(t.id) \in scratch
               /\ ~(BookName(t.id) \notin scratch' /\ IntermediatePath(t.id) \in ingest'))
                 => /\ BookName(t.id) \notin scratch'
                    /\ IntermediatePath(t.id) \notin ingest'
        /\ \A t \in Finishing :
              (t.success /\ ~t.path /\ ~IsSet(t) /\ status[t.id] = "downloading")
                 => status'[t.id] = "error"
      ]_vars

\* C35: a worker that marks its item available leaves a file at the final
\* path it recorded; and a hand-over that finds no scratch file does not
\* return a path
C35_AvailableHasFile ==
    [][ /\ \A t \in Finishing :
              (status[t.id] # "available" /\ status'[t.id] = "available") =>
                 (t.path /\ FinalPath(t.id) \in ingest')
        /\ \A t \in active_futures : \A u \in active_futures' :
              (/\ SameTask(t, u)
               /\ t.pc = "after" /\ u.pc # "after"
               /\ BookName(t.id) \notin scratch)
                 => ~u.path
      ]_vars

\* the tasks that are past their cancellation checks and work on files
InFlight == {t \in active_futures : t.pc \in {"links", "after", "rename"}}

\* C36: two items in flight at the same time have different scratch paths
\* and different final paths
C36_DistinctPaths ==
    \A t1, t2 \in InFlight :
        t1.id # t2.id =>
           /\ BookName(t1.id) # BookName(t2.id)
           /\ FinalPath(t1.id) # FinalPath(t2.id)

\* C37: a response that ends with at least the expected number of bytes is
\* returned as data, whatever its content-type
C37_FullSizeIsData ==
    [][ (dl_pc = "stream" /\ dl_pc' = "idle" /\ pbar_n = body /\ pbar_n >= total_size)
           => dl_last'.result = "buffer"
      ]_vars

\* C39: a call whose expected size is unknown (0) does not end because the
\* percentage could not be computed
C39_UnknownSizeCompletes ==
    dl_last.total = 0 => dl_last.result # "raised"

\* C38: a download attempt leaves the stored list of candidate links of every
\* item as it was
C38_AttemptKeepsStoredLinks ==
    [][Len(links_run') > Len(links_run) => download_urls' = download_urls]_vars

\* the lookups of key k that are past the test of line 3 and have not returned
Loading(k) ==
    {th \in Threads : ck_threads[th].key = k /\ ck_threads[th].pc \in {"load", "store", "write"}}

\* C34: a lookup of a key that has an entry returns the stored result and
\* runs no loader; once no first lookup of a key is in flight any more, the
\* entry of the key does not change
C34_HitReturnsStored ==
    [][ /\ \A th \in Threads :
              (/\ ck_threads[th].pc = "check"
               /\ ck_threads'[th].pc # "check"
               /\ cache[ck_threads[th].key] # 0)
              => /\ ck_threads'[th].pc = "out"
                 /\ ck_threads'[th].hit
                 /\ ck_threads'[th].result = cache[ck_threads[th].key]
                 /\ loads' = loads
                 /\ cache' = cache
        /\ \A k \in Keys :
              (cache[k] # 0 /\ Loading(k) = {}) => cache'[k] = cache[k] ]_vars

\* two first lookups of one key each ran the loader, and a third lookup was
\* answered with the one entry the cache holds
C34_Witness ==
    \E k \in Keys : \E t1, t2, t3 \in Threads :
        /\ \A t \in {t1, t2, t3} : ck_threads[t].key = k /\ ck_threads[t].pc = "out"
        /\ ~ck_threads[t1].hit /\ ~ck_threads[t2].hit
        /\ ck_threads[t1].result # 0 /\ ck_threads[t2].result # 0
        /\ ck_threads[t1].result # ck_threads[t2].result
        /\ ck_threads[t3].hit /\ ck_threads[t3].result = cache[k]
        /\ Loading(k) = {}

\* C40: the lock is not held while the loader runs nor after it raised; a
\* raising loader leaves the cache as it was, and a lookup that finds no entry
\* runs the loader
C40_LoaderRaiseLeavesCache ==
    /\ [](\A th \in Threads :
             (ck_threads[th].pc = "load" \/ ck_threads[th].raised) => cache_lock # th)
    /\ [][ /\ \A th \in Threads :
                 (ck_threads[th].pc = "load" /\ ck_threads'[th].raised)
                 => cache' = cache /\ cache_lock' = cache_lock
           /\ \A th \in Threads :
                 (/\ ck_threads[th].pc = "check"
                  /\ ck_threads'[th].pc # "check"
                  /\ cache[ck_threads[th].key] = 0)
                 => ck_threads'[th].pc = "load" ]_vars

\* the first loader run raised and left no entry, and the loader ran a second
\* time for the same key
C40_Witness ==
    \E t1, t2 \in Threads :
        /\ t1 # t2
        /\ ck_threads[t1].raised /\ ck_threads[t1].pc = "out"
        /\ ck_threads[t2].key = ck_threads[t1].key
        /\ ck_threads[t2].pc = "store" /\ ck_threads[t2].result = 2
        /\ loads = 2
        /\ cache[ck_threads[t1].key] = 0
        /\ cache_lock = 0

AddOrReprioritise ==
    \/ clock' # clock
    \/ priority' # priority

\* the admission k of id has been claimed by the coordinator
Claimed(id, k) == cancel_token[id] = k /\ reserved[id]

\* C32: when from some point on no item is added or re-prioritised, every
\* queued item is eventually claimed by the coordinator, unless the user
\* cancels it first, and eventually reaches available, error or cancelled
C32_QueuedIsServed ==
    (<>[][~AddOrReprioritise]_vars) =>
        \A id \in Ids :
            /\ \A k \in 1..MaxAdmissions :
                  (status[id] = "queued" /\ cancel_token[id] = k)
                  ~> (Claimed(id, k) \/ cancelled_in[k] # "no")
            /\ status[id] = "queued" ~> status[id] \in {"available", "error", "cancelled"}

====
